---- MODULE Spec2Model ----
(***************************************************************************)
(* Document ingestion and vector-index maintenance of the knowledge-base   *)
(* backend: the SQS indexing worker (kb_indexing_worker.py), the lease on  *)
(* the KB record (kb_repositories.py) and the index artifact kept as three *)
(* S3 objects (faiss_utils.py).                                            *)
(*                                                                         *)
(* One knowledge base, one document per queued message.  A vector is       *)
(* modelled by the chunk it embeds, so row/metadata alignment is visible.  *)
(* Time is the millisecond clock read by int(time.time() * 1000).          *)
(***************************************************************************)
EXTENDS Integers, Sequences, FiniteSets, TLC

\* ---------------------------------------------------------------- bounds
NJobs == 2          \* queued indexing messages (documents)
MaxChunks == 2      \* chunks a document can produce
MaxTicks == 2       \* clock steps observed
MaxPrior == 1       \* chunks an earlier ingestion may have left in the KB
TicksPerTtl == 1    \* clock steps per lease TTL
MaxRequestK == 21   \* largest k a query request carries
MaxRows == 3        \* rows of the index a query reads

\* ------------------------------------------------------ program constants
ttl_seconds == 300  \* update_index_lock(..., ttl_seconds=300)
max_retries == 5    \* _process_record: max_retries = 5

Jobs == 1..NJobs
TickMs == (ttl_seconds * 1000) \div TicksPerTtl
MaxTime == MaxTicks * TickMs

\* str(uuid.uuid4()): one fresh lock id per run of _process_record
uuid(j) == "lock-" \o ToString(j)

\* ----------------------------------------------------- DynamoDB item ops
\* UpdateExpression "SET a = x, b = y" on an item (a function over its
\* attribute names)
SetAttrs(item, new) ==
    [a \in DOMAIN item \cup DOMAIN new |->
        IF a \in DOMAIN new THEN new[a] ELSE item[a]]

\* UpdateExpression "REMOVE a, b"
RemoveAttrs(item, names) == [a \in DOMAIN item \ names |-> item[a]]

\* (variant: a recorded lease never expires)
LockConditionNoExpiry(item, timestamp) ==
    \/ "indexLock" \notin DOMAIN item
    \/ item.indexLock = ""

\* (variant: the `indexLock = :empty` clause is missing)
LockConditionNoEmpty(item, timestamp) ==
    \/ "indexLock" \notin DOMAIN item
    \/ item.indexLockTime < timestamp - (ttl_seconds * 1000)

\* (variant: a lease exactly ttl old already counts as stale)
LockConditionAtTtl(item, timestamp) ==
    \/ "indexLock" \notin DOMAIN item
    \/ item.indexLock = ""
    \/ item.indexLockTime <= timestamp - (ttl_seconds * 1000)

\* ConditionExpression of update_index_lock:
\*   attribute_not_exists(indexLock) OR indexLock = :empty
\*   OR indexLockTime < :expiry,   :expiry = timestamp - ttl_seconds * 1000
LockCondition(item, timestamp) ==
    \/ "indexLock" \notin DOMAIN item
    \/ item.indexLock = ""
    \/ item.indexLockTime < timestamp - (ttl_seconds * 1000)

\* KnowledgeBaseRepository.update_index_lock: the conditional write and the
\* boolean it returns (ConditionalCheckFailed is caught and becomes False)
update_index_lock(item, lock_id, timestamp) ==
    IF LockCondition(item, timestamp)
    THEN [ok |-> TRUE,
          item |-> SetAttrs(item, [indexLock |-> lock_id,
                                   indexLockTime |-> timestamp])]
    ELSE [ok |-> FALSE, item |-> item]

\* (variant: the REMOVE without its ConditionExpression)
ReleaseUnconditional(item, lock_id) ==
    RemoveAttrs(item, {"indexLock", "indexLockTime"})

\* KnowledgeBaseRepository.release_index_lock: REMOVE under
\* "indexLock = :lock"; a failed condition is swallowed
release_index_lock(item, lock_id) ==
    IF "indexLock" \in DOMAIN item /\ item.indexLock = lock_id
    THEN RemoveAttrs(item, {"indexLock", "indexLockTime"})
    ELSE item

\* ------------------------------------------------------------ data shapes
\* _create_chunks: n chunk records numbered consecutively from start_index
\* (document_id, chunk_index are the fields the claims read; text, source,
\* page and token_count are carried by the record's identity)
_create_chunks(document_id, n, start_index) ==
    [i \in 1..n |-> [document_id |-> document_id,
                     chunk_index |-> start_index + i - 1]]

\* create_embedding: the vector of a chunk's text, a function of the chunk
create_embedding(chunk) == <<"vec", chunk.document_id, chunk.chunk_index>>

\* create_embeddings_batch: one vector per text, in input order
create_embeddings_batch(chunkList) ==
    [i \in 1..Len(chunkList) |-> create_embedding(chunkList[i])]

\* The Python value bound to `chunks` in _process_record: a list of chunk
\* records, or the (chunks, extraction_method) tuple
PyList(items) == [tuple |-> FALSE, items |-> items]
PyTuple(items) == [tuple |-> TRUE, items |-> items]
PyLen(v) == IF v.tuple THEN 2 ELSE Len(v.items)
Truthy(v) == PyLen(v) > 0

\* DocumentRepository.update_status: status always, chunkCount only when
\* chunk_count > 0, errorMessage only when a message is given
update_status(doc, status, chunk_count, error_message) ==
    [status |-> status,
     chunkCount |-> IF chunk_count > 0 THEN chunk_count ELSE doc.chunkCount,
     errorMessage |-> IF error_message # "" THEN error_message
                      ELSE doc.errorMessage]

\* S3 objects of the artifact, a function over the keys that exist
IndexKey == "faiss.index"
MetaKey == "metadata.pkl"
ConfigKey == "config.json"
PutObject(bucket, key, body) ==
    [k \in DOMAIN bucket \cup {key} |-> IF k = key THEN body ELSE bucket[k]]

StoredIndex(bucket) == IF IndexKey \in DOMAIN bucket THEN bucket[IndexKey] ELSE <<>>
StoredMetadata(bucket) == IF MetaKey \in DOMAIN bucket THEN bucket[MetaKey] ELSE <<>>

\* ------------------------------------------------------------------ state
VARIABLES
    now,        \* the clock, ms
    kb,         \* the KnowledgeBase item: indexStatus, indexLock, indexLockTime
    docs,       \* Document items by document id
    s3,         \* the KB's artifact objects under knowledge-bases/{user}/{kb}
    pc,         \* where each run of handler/_process_record stands
    chunks,     \* _process_record: chunks
    embeddings, \* _process_record: embeddings
    attempt,    \* _process_record: attempt of the lock loop
    index,      \* _process_record: existing_index / index
    metadata,   \* _process_record: metadata
    error,      \* the exception travelling up, "" when none
    prior,      \* history: rows the artifact held before the first run
    swallowed,  \* history: a load failed although the object was stored
    lease,      \* history: each run's lease, as its own calls recorded it
    overlap,    \* history: some run started while another was under way
    last,       \* history: the last operation on the KB item or the artifact
    confirm,    \* where each run of confirm_document_upload stands
    query,      \* the run of query_knowledge_base and what it called
    embed,      \* a run of FAISSService.create_embedding on its own
    pdf,        \* a run of DocumentProcessingService._extract_pdf on its own
    chunker     \* a run of DocumentProcessingService._create_chunks on its own

vars == <<now, kb, docs, s3, pc, chunks, embeddings, attempt, index,
          metadata, error, prior, swallowed, lease, overlap, last,
          confirm, query, embed, pdf, chunker>>

\* the functions run on their own
units == <<embed, pdf, chunker>>
NoEmbed == [pc |-> "none"]
NoPdf == [pc |-> "none"]
NoChunker == [pc |-> "none"]
UnitsIdle == embed = NoEmbed /\ pdf = NoPdf /\ chunker = NoChunker

\* no query is under way
NoQuery == [pc |-> "none"]

NoLease == [state |-> "none", at |-> 0]
NoOp == [op |-> "none", job |-> 0, ok |-> TRUE, before |-> [indexStatus |-> "empty"],
         at |-> 0]
Op(name, j, ok) == [op |-> name, job |-> j, ok |-> ok, before |-> kb, at |-> now]

Active(j) == pc[j] \notin {"queued", "returned", "raised"}
Finished(j) == pc[j] \in {"returned", "raised"}

\* The artifact a successful earlier ingestion of document 0 (n chunks) left
SavedArtifact(chunkList) ==
    PutObject(PutObject(PutObject(<<>>,
        IndexKey, create_embeddings_batch(chunkList)),
        MetaKey, chunkList),
        ConfigKey, [count |-> Len(chunkList), metadata_count |-> Len(chunkList)])

\* A KB as KnowledgeBaseRepository.create leaves it, or one that already
\* holds an indexed document; the documents of the queued messages are as
\* DocumentRepository.create leaves them.
Init ==
    /\ now = 0
    /\ prior \in 0..MaxPrior
    /\ kb = [indexStatus |-> IF prior = 0 THEN "empty" ELSE "ready"]
    /\ docs = [j \in Jobs |-> [status |-> "uploaded", chunkCount |-> 0,
                               errorMessage |-> ""]]
    /\ s3 = IF prior = 0 THEN <<>> ELSE SavedArtifact(_create_chunks(0, prior, 0))
    /\ swallowed = FALSE
    /\ pc = [j \in Jobs |-> "queued"]
    /\ chunks = [j \in Jobs |-> PyList(<<>>)]
    /\ embeddings = [j \in Jobs |-> <<>>]
    /\ attempt = [j \in Jobs |-> 0]
    /\ index = [j \in Jobs |-> <<>>]
    /\ metadata = [j \in Jobs |-> <<>>]
    /\ error = [j \in Jobs |-> ""]
    /\ lease = [j \in Jobs |-> NoLease]
    /\ overlap = FALSE
    /\ last = NoOp
    /\ confirm = [j \in Jobs |-> "done"]
    /\ query = NoQuery
    /\ UnitsIdle

\* _process_record is left: its locals are gone
DropLocals(j) ==
    /\ chunks' = [chunks EXCEPT ![j] = PyList(<<>>)]
    /\ embeddings' = [embeddings EXCEPT ![j] = <<>>]
    /\ attempt' = [attempt EXCEPT ![j] = 0]
    /\ index' = [index EXCEPT ![j] = <<>>]
    /\ metadata' = [metadata EXCEPT ![j] = <<>>]

\* an exception leaves _process_record: control goes to handler's except
Raise(j, message) ==
    /\ pc' = [pc EXCEPT ![j] = "except"]
    /\ error' = [error EXCEPT ![j] = message]

\* time passes
Tick ==
    /\ now + TickMs <= MaxTime
    /\ now' = now + TickMs
    /\ UNCHANGED <<confirm, query, units, prior, swallowed, kb, docs, s3, pc, chunks, embeddings, attempt, index,
                   metadata, error, lease, overlap, last>>

\* --------------------------------------------------- handler / _process_record
\* handler takes the record and _process_record runs download_and_process
\* (lines 110-141).  The extraction fails or yields no content (ValueError
\* out of download_and_process), or the call returns.  The worker binds the
\* returned value to `chunks` and treats it as the list of chunk records;
\* download_and_process as it stands in the layer returns the pair
\* (chunks, extraction_method).  Both bindings are kept: `asPair` is the
\* layer's return value taken as it is.  The worker passes no
\* chunk_index_start, so numbering starts at 0.
DownloadAndProcess(j) ==
    /\ pc[j] = "queued"
    /\ overlap' = (overlap \/ \E o \in Jobs \ {j} : Active(o))
    /\ \/ /\ Raise(j, "No content extracted")
          /\ UNCHANGED chunks
       \/ \E n \in 0..MaxChunks, asPair \in BOOLEAN :
            LET list == _create_chunks(j, n, 0)
                value == IF asPair THEN PyTuple(list) ELSE PyList(list)
            IN  /\ chunks' = [chunks EXCEPT ![j] = value]
                /\ IF Truthy(value)
                   THEN /\ pc' = [pc EXCEPT ![j] = "mark_embedding"]
                        /\ UNCHANGED error
                   ELSE Raise(j, "Document produced no chunks")
    /\ UNCHANGED <<confirm, query, units, prior, swallowed, now, kb, docs, s3, embeddings, attempt, index, metadata,
                   lease, last>>

\* (variant: the lease is taken before the embedding calls)
MarkEmbeddingLocking(j) ==
    /\ pc[j] = "mark_embedding"
    /\ kb' = update_index_lock(kb, uuid(j), now).item
    /\ \/ /\ docs' = [docs EXCEPT ![j] =
                        update_status(@, "embedding", PyLen(chunks[j]), "")]
          /\ pc' = [pc EXCEPT ![j] = "embed"]
          /\ UNCHANGED error
       \/ /\ Raise(j, "status update failed")
          /\ UNCHANGED docs
    /\ UNCHANGED <<confirm, query, units, prior, swallowed, now, s3, chunks, embeddings,
                   attempt, index, metadata, lease, overlap, last>>

\* lines 143-148: update_status(status="embedding", chunk_count=len(chunks))
MarkEmbedding(j) ==
    /\ pc[j] = "mark_embedding"
    /\ \/ /\ docs' = [docs EXCEPT ![j] =
                        update_status(@, "embedding", PyLen(chunks[j]), "")]
          /\ pc' = [pc EXCEPT ![j] = "embed"]
          /\ UNCHANGED error
       \/ /\ Raise(j, "status update failed")
          /\ UNCHANGED docs
    /\ UNCHANGED <<confirm, query, units, prior, swallowed, now, kb, s3, chunks, embeddings, attempt, index, metadata,
                   lease, overlap, last>>

\* lines 150-155: [chunk["text"] for chunk in chunks] and the embedding calls.
\* Indexing the pair's first element (a list) with "text" is a TypeError; the
\* provider can fail too.
CreateEmbeddings(j) ==
    /\ pc[j] = "embed"
    /\ \/ /\ ~chunks[j].tuple
          /\ embeddings' = [embeddings EXCEPT ![j] =
                              create_embeddings_batch(chunks[j].items)]
          /\ attempt' = [attempt EXCEPT ![j] = 0]
          /\ pc' = [pc EXCEPT ![j] = "lock"]
          /\ UNCHANGED error
       \/ /\ Raise(j, IF chunks[j].tuple
                      THEN "list indices must be integers or slices, not str"
                      ELSE "embedding failed")
          /\ UNCHANGED <<embeddings, attempt>>
    /\ UNCHANGED <<confirm, query, units, prior, swallowed, now, kb, docs, s3, chunks, index, metadata, lease, overlap,
                   last>>

\* lines 157-176: one pass of `for attempt in range(max_retries)`; the sleep
\* between passes is time passing (Tick).  After the last failed pass the
\* RuntimeError leaves _process_record before the try block is entered.
TryLock(j) ==
    /\ pc[j] = "lock"
    /\ LET r == update_index_lock(kb, uuid(j), now)
       IN  /\ kb' = r.item
           /\ last' = Op("update_index_lock", j, r.ok)
           /\ IF r.ok
              THEN /\ pc' = [pc EXCEPT ![j] = "load_index"]
                   /\ lease' = [lease EXCEPT ![j] = [state |-> "held", at |-> now]]
                   /\ UNCHANGED <<attempt, error>>
              ELSE /\ UNCHANGED lease
                   /\ IF attempt[j] + 1 < max_retries
                      THEN /\ attempt' = [attempt EXCEPT ![j] = @ + 1]
                           /\ UNCHANGED <<pc, error>>
                      ELSE /\ Raise(j, "Failed to acquire index lock")
                           /\ attempt' = [attempt EXCEPT ![j] = 0]
    /\ UNCHANGED <<confirm, query, units, prior, swallowed, now, docs, s3, chunks, embeddings, index, metadata, overlap>>

\* (variant: a load that finds no index object is an error of the run)
LoadIndexObjectStrict(j) ==
    /\ pc[j] = "load_index"
    /\ \/ /\ IndexKey \in DOMAIN s3
          /\ index' = [index EXCEPT ![j] = s3[IndexKey]]
          /\ pc' = [pc EXCEPT ![j] = "load_metadata"]
          /\ UNCHANGED error
       \/ /\ pc' = [pc EXCEPT ![j] = "release"]
          /\ error' = [error EXCEPT ![j] = "index not found"]
          /\ UNCHANGED index
    /\ UNCHANGED <<confirm, query, units, prior, swallowed, now, kb, docs, s3, chunks,
                   embeddings, attempt, metadata, lease, overlap, last>>

\* lines 180-183, load_index_from_s3 lines 138-144: download faiss.index.
\* A missing object and any other failure both raise.
LoadIndexObject(j) ==
    /\ pc[j] = "load_index"
    /\ \/ /\ IndexKey \in DOMAIN s3
          /\ index' = [index EXCEPT ![j] = s3[IndexKey]]
          /\ pc' = [pc EXCEPT ![j] = "load_metadata"]
          /\ UNCHANGED swallowed
       \/ /\ pc' = [pc EXCEPT ![j] = "create_index"]
          /\ swallowed' = (swallowed \/ IndexKey \in DOMAIN s3)
          /\ UNCHANGED index
    /\ UNCHANGED <<confirm, query, units, prior, now, kb, docs, s3, chunks, embeddings, attempt, metadata,
                   error, lease, overlap, last>>

\* existing_index.add(...) / existing_metadata + chunks: rows are appended
\* after the existing ones, in order
AppendRows(existing, new) == existing \o new

\* load_index_from_s3 lines 146-155, then worker lines 184-186: download
\* metadata.pkl, add the vectors, extend the metadata.  Any failure here is
\* caught by `except Exception as load_error` as well.
LoadMetadataAndAppend(j) ==
    /\ pc[j] = "load_metadata"
    /\ \/ /\ MetaKey \in DOMAIN s3
          /\ index' = [index EXCEPT ![j] = AppendRows(@, embeddings[j])]
          /\ metadata' = [metadata EXCEPT ![j] =
                            AppendRows(s3[MetaKey], chunks[j].items)]
          /\ pc' = [pc EXCEPT ![j] = "save_index"]
          /\ UNCHANGED swallowed
       \/ /\ pc' = [pc EXCEPT ![j] = "create_index"]
          /\ swallowed' = (swallowed \/ MetaKey \in DOMAIN s3)
          /\ UNCHANGED <<index, metadata>>
    /\ UNCHANGED <<confirm, query, units, prior, now, kb, docs, s3, chunks, embeddings, attempt, error,
                   lease, overlap, last>>

\* lines 191-194: the except branch builds a new index from this document
CreateIndex(j) ==
    /\ pc[j] = "create_index"
    /\ index' = [index EXCEPT ![j] = embeddings[j]]
    /\ metadata' = [metadata EXCEPT ![j] = chunks[j].items]
    /\ pc' = [pc EXCEPT ![j] = "save_index"]
    /\ UNCHANGED <<confirm, query, units, prior, swallowed, now, kb, docs, s3, chunks, embeddings, attempt, error,
                   lease, overlap, last>>

\* (variant: the release is not in a finally block)
RaiseSkippingFinally(j, message) ==
    /\ pc' = [pc EXCEPT ![j] = "except"]
    /\ error' = [error EXCEPT ![j] = message]

\* an exception inside the try block: the finally block runs first
RaiseInTry(j, message) ==
    /\ pc' = [pc EXCEPT ![j] = "release"]
    /\ error' = [error EXCEPT ![j] = message]

\* save_index_to_s3 lines 109-111: upload_file(faiss.index)
SaveIndexObject(j) ==
    /\ pc[j] = "save_index"
    /\ \/ /\ s3' = PutObject(s3, IndexKey, index[j])
          /\ last' = Op("put_index", j, TRUE)
          /\ pc' = [pc EXCEPT ![j] = "save_metadata"]
          /\ UNCHANGED error
       \/ /\ RaiseInTry(j, "index upload failed")
          /\ UNCHANGED <<s3, last>>
    /\ UNCHANGED <<confirm, query, units, prior, swallowed, now, kb, docs, chunks, embeddings, attempt, index, metadata,
                   lease, overlap>>

\* save_index_to_s3 lines 112-114: upload_file(metadata.pkl)
SaveMetadataObject(j) ==
    /\ pc[j] = "save_metadata"
    /\ \/ /\ s3' = PutObject(s3, MetaKey, metadata[j])
          /\ last' = Op("put_metadata", j, TRUE)
          /\ pc' = [pc EXCEPT ![j] = "save_config"]
          /\ UNCHANGED error
       \/ /\ RaiseInTry(j, "metadata upload failed")
          /\ UNCHANGED <<s3, last>>
    /\ UNCHANGED <<confirm, query, units, prior, swallowed, now, kb, docs, chunks, embeddings, attempt, index, metadata,
                   lease, overlap>>

\* (variant: the save returns without having written config.json)
SaveConfigSkipped(j) ==
    /\ pc[j] = "save_config"
    /\ pc' = [pc EXCEPT ![j] = "mark_indexed"]
    /\ UNCHANGED <<confirm, query, units, prior, swallowed, now, kb, docs, s3, chunks, embeddings,
                   attempt, index, metadata, error, lease, overlap, last>>

\* save_index_to_s3 lines 115-125: put_object(config.json) with
\* count = index.ntotal and metadata_count = len(metadata)
SaveConfigObject(j) ==
    /\ pc[j] = "save_config"
    /\ \/ /\ s3' = PutObject(s3, ConfigKey,
                             [count |-> Len(index[j]),
                              metadata_count |-> Len(metadata[j])])
          /\ last' = Op("put_config", j, TRUE)
          /\ pc' = [pc EXCEPT ![j] = "mark_indexed"]
          /\ UNCHANGED error
       \/ /\ RaiseInTry(j, "config upload failed")
          /\ UNCHANGED <<s3, last>>
    /\ UNCHANGED <<confirm, query, units, prior, swallowed, now, kb, docs, chunks, embeddings, attempt, index, metadata,
                   lease, overlap>>

\* lines 203-208: update_status(status="indexed", chunk_count=len(chunks))
MarkIndexed(j) ==
    /\ pc[j] = "mark_indexed"
    /\ \/ /\ docs' = [docs EXCEPT ![j] =
                        update_status(@, "indexed", PyLen(chunks[j]), "")]
          /\ pc' = [pc EXCEPT ![j] = "mark_ready"]
          /\ UNCHANGED error
       \/ /\ RaiseInTry(j, "status update failed")
          /\ UNCHANGED docs
    /\ UNCHANGED <<confirm, query, units, prior, swallowed, now, kb, s3, chunks, embeddings, attempt, index, metadata,
                   lease, overlap, last>>

\* lines 209-211: update(updates={"indexStatus": "ready"})
MarkKbReady(j) ==
    /\ pc[j] = "mark_ready"
    /\ \/ /\ kb' = SetAttrs(kb, [indexStatus |-> "ready"])
          /\ pc' = [pc EXCEPT ![j] = "release"]
          /\ UNCHANGED error
       \/ /\ RaiseInTry(j, "KB update failed")
          /\ UNCHANGED kb
    /\ UNCHANGED <<confirm, query, units, prior, swallowed, now, docs, s3, chunks, embeddings, attempt, index, metadata,
                   lease, overlap, last>>

\* lines 214-218: the finally block; afterwards the pending exception, if
\* any, goes on to handler's except
ReleaseLock(j) ==
    /\ pc[j] = "release"
    /\ kb' = release_index_lock(kb, uuid(j))
    /\ last' = Op("release_index_lock", j, kb' # kb)
    /\ lease' = [lease EXCEPT ![j].state = "released"]
    /\ pc' = [pc EXCEPT ![j] = IF error[j] = "" THEN "returned" ELSE "except"]
    /\ DropLocals(j)
    /\ UNCHANGED <<confirm, query, units, prior, swallowed, now, docs, s3, error, overlap>>

\* handler lines 99-105 and _mark_document_failed: record the failure (a
\* failure of that write is only printed), then re-raise
MarkDocumentFailed(j) ==
    /\ pc[j] = "except"
    /\ \/ docs' = [docs EXCEPT ![j] = update_status(@, "failed", 0, error[j])]
       \/ UNCHANGED docs
    /\ pc' = [pc EXCEPT ![j] = "raised"]
    /\ DropLocals(j)
    /\ UNCHANGED <<confirm, query, units, prior, swallowed, now, kb, s3, error, lease, overlap, last>>

Next ==
    \/ Tick
    \/ \E j \in Jobs :
        \/ DownloadAndProcess(j)
        \/ MarkEmbedding(j)
        \/ CreateEmbeddings(j)
        \/ TryLock(j)
        \/ LoadIndexObject(j)
        \/ LoadMetadataAndAppend(j)
        \/ CreateIndex(j)
        \/ SaveIndexObject(j)
        \/ SaveMetadataObject(j)
        \/ SaveConfigObject(j)
        \/ MarkIndexed(j)
        \/ MarkKbReady(j)
        \/ ReleaseLock(j)
        \/ MarkDocumentFailed(j)

Spec == Init /\ [][Next]_vars

\* ------------------------------------------------- the lock manager alone
\* update_index_lock and release_index_lock called by arbitrary callers on
\* an arbitrary recorded lease: absent, empty, or held since some instant
Times == {t * TickMs : t \in 0..MaxTicks}

LockItems ==
    {[indexStatus |-> "empty"]}
    \cup {[indexStatus |-> "empty", indexLock |-> l, indexLockTime |-> t] :
            l \in {""} \cup {uuid(j) : j \in Jobs}, t \in Times}

InitLock ==
    /\ now \in Times
    /\ kb \in LockItems
    /\ prior = 0
    /\ swallowed = FALSE
    /\ docs = [j \in Jobs |-> [status |-> "uploaded", chunkCount |-> 0,
                               errorMessage |-> ""]]
    /\ s3 = <<>>
    /\ pc = [j \in Jobs |-> "queued"]
    /\ chunks = [j \in Jobs |-> PyList(<<>>)]
    /\ embeddings = [j \in Jobs |-> <<>>]
    /\ attempt = [j \in Jobs |-> 0]
    /\ index = [j \in Jobs |-> <<>>]
    /\ metadata = [j \in Jobs |-> <<>>]
    /\ error = [j \in Jobs |-> ""]
    /\ lease = [j \in Jobs |-> NoLease]
    /\ overlap = FALSE
    /\ last = NoOp
    /\ confirm = [j \in Jobs |-> "done"]
    /\ query = NoQuery
    /\ UnitsIdle

LockCall(j) ==
    /\ kb' = update_index_lock(kb, uuid(j), now).item
    /\ last' = Op("update_index_lock", j, update_index_lock(kb, uuid(j), now).ok)
    /\ UNCHANGED <<confirm, query, units, prior, swallowed, now, docs, s3, pc, chunks, embeddings, attempt, index,
                   metadata, error, lease, overlap>>

ReleaseCall(j) ==
    /\ kb' = release_index_lock(kb, uuid(j))
    /\ last' = Op("release_index_lock", j, kb' # kb)
    /\ UNCHANGED <<confirm, query, units, prior, swallowed, now, docs, s3, pc, chunks, embeddings, attempt, index,
                   metadata, error, lease, overlap>>

NextLock ==
    \/ Tick
    \/ \E j \in Jobs : LockCall(j) \/ ReleaseCall(j)

SpecLock == InitLock /\ [][NextLock]_vars

\* ------------------------------------------- upload confirmation, deletion
\* the documents whose upload is confirmed here; the others are never uploaded
Uploads == {1}

\* no Document item under this id
AbsentDoc == [status |-> "absent", chunkCount |-> 0, errorMessage |-> ""]
\* DocumentRepository.create: put_item with status "uploaded", chunkCount 0
CreatedDoc == [status |-> "uploaded", chunkCount |-> 0, errorMessage |-> ""]

\* ADD documentCount :inc (an absent attribute counts as 0)
AddDocumentCount(item, d) ==
    SetAttrs(item, [documentCount |->
        (IF "documentCount" \in DOMAIN item THEN item.documentCount ELSE 0) + d])
increment_document_stats(item) == AddDocumentCount(item, 1)
\* (variant: the KB falls back to "empty" with its last document)
DecrementRevertingStatus(item) ==
    IF AddDocumentCount(item, -1).documentCount <= 0
    THEN SetAttrs(AddDocumentCount(item, -1), [indexStatus |-> "empty"])
    ELSE AddDocumentCount(item, -1)
decrement_document_stats(item) == AddDocumentCount(item, -1)

InitUpload ==
    /\ now = 0
    /\ prior \in 0..MaxPrior
    /\ kb = [indexStatus |-> IF prior = 0 THEN "empty" ELSE "ready",
             documentCount |-> IF prior = 0 THEN 0 ELSE 1]
    /\ docs = [j \in Jobs |-> AbsentDoc]
    /\ s3 = IF prior = 0 THEN <<>> ELSE SavedArtifact(_create_chunks(0, prior, 0))
    /\ swallowed = FALSE
    /\ pc = [j \in Jobs |-> "unsent"]
    /\ chunks = [j \in Jobs |-> PyList(<<>>)]
    /\ embeddings = [j \in Jobs |-> <<>>]
    /\ attempt = [j \in Jobs |-> 0]
    /\ index = [j \in Jobs |-> <<>>]
    /\ metadata = [j \in Jobs |-> <<>>]
    /\ error = [j \in Jobs |-> ""]
    /\ lease = [j \in Jobs |-> NoLease]
    /\ overlap = FALSE
    /\ last = NoOp
    /\ confirm = [j \in Jobs |-> IF j \in Uploads THEN "create" ELSE "none"]
    /\ query = NoQuery
    /\ UnitsIdle

\* confirm_document_upload lines 179-188: document_repository.create; an
\* exception anywhere in the handler ends it with a 500
ConfirmCreate(j) ==
    /\ confirm[j] = "create"
    /\ \/ /\ docs' = [docs EXCEPT ![j] = CreatedDoc]
          /\ confirm' = [confirm EXCEPT ![j] = "stats"]
       \/ /\ confirm' = [confirm EXCEPT ![j] = "done"]
          /\ UNCHANGED docs
    /\ UNCHANGED <<query, units, prior, swallowed, now, kb, s3, pc, chunks, embeddings, attempt,
                   index, metadata, error, lease, overlap, last>>

\* lines 190-195: increment_document_stats
ConfirmIncrementStats(j) ==
    /\ confirm[j] = "stats"
    /\ \/ /\ kb' = increment_document_stats(kb)
          /\ confirm' = [confirm EXCEPT ![j] = "send"]
       \/ /\ confirm' = [confirm EXCEPT ![j] = "done"]
          /\ UNCHANGED kb
    /\ UNCHANGED <<query, units, prior, swallowed, now, docs, s3, pc, chunks, embeddings, attempt,
                   index, metadata, error, lease, overlap, last>>

\* lines 197-212: send_message puts the indexing message on the queue; from
\* then on a worker can take it
ConfirmSendMessage(j) ==
    /\ confirm[j] = "send"
    /\ \/ /\ pc' = [pc EXCEPT ![j] = "queued"]
          /\ confirm' = [confirm EXCEPT ![j] = "mark"]
       \/ /\ confirm' = [confirm EXCEPT ![j] = "done"]
          /\ UNCHANGED pc
    /\ UNCHANGED <<query, units, prior, swallowed, now, kb, docs, s3, chunks, embeddings, attempt,
                   index, metadata, error, lease, overlap, last>>

\* lines 214-218: update_status(status="processing"), after the message is sent
ConfirmMarkProcessing(j) ==
    /\ confirm[j] = "mark"
    /\ \/ docs' = [docs EXCEPT ![j] = update_status(@, "processing", 0, "")]
       \/ UNCHANGED docs
    /\ confirm' = [confirm EXCEPT ![j] = "done"]
    /\ UNCHANGED <<query, units, prior, swallowed, now, kb, s3, pc, chunks, embeddings, attempt,
                   index, metadata, error, lease, overlap, last>>

\* delete_document lines 256-294: 404 when there is no record; otherwise the
\* record is deleted (a failed delete returns 500 with nothing changed) and
\* the KB's documentCount is decremented.  The index artifact and indexStatus
\* are not touched.
DeleteDocument(j) ==
    /\ docs[j].status # "absent"
    /\ \/ /\ docs' = [docs EXCEPT ![j] = AbsentDoc]
          /\ \/ kb' = decrement_document_stats(kb)
             \/ UNCHANGED kb
       \/ UNCHANGED <<docs, kb>>
    /\ UNCHANGED <<confirm, query, units, prior, swallowed, now, s3, pc, chunks, embeddings,
                   attempt, index, metadata, error, lease, overlap, last>>

NextUpload ==
    \E j \in Uploads :
        \/ ConfirmCreate(j)
        \/ ConfirmIncrementStats(j)
        \/ ConfirmSendMessage(j)
        \/ ConfirmMarkProcessing(j)
        \/ DeleteDocument(j)
        \/ DownloadAndProcess(j)
        \/ MarkEmbedding(j)
        \/ CreateEmbeddings(j)
        \/ TryLock(j)
        \/ LoadIndexObject(j)
        \/ LoadMetadataAndAppend(j)
        \/ CreateIndex(j)
        \/ SaveIndexObject(j)
        \/ SaveMetadataObject(j)
        \/ SaveConfigObject(j)
        \/ MarkIndexed(j)
        \/ MarkKbReady(j)
        \/ ReleaseLock(j)
        \/ MarkDocumentFailed(j)

SpecUpload == InitUpload /\ [][NextUpload]_vars

\* ------------------------------------------------------ query_knowledge_base
\* k = int(body.get("k") or 8); search(k=max(1, min(k, 20)))
DefaultK == 8
MinK == 1
MaxK == 20

\* an optional field of the request body: <<>> when it is not given (None),
\* <<v>> when it is given as v
None == <<>>
Given(v) == <<v>>

\* the requests: one required part missing or none, k an integer or not
\* given, distanceThreshold given or not
KRequest == {None} \cup {Given(k) : k \in -1..MaxRequestK}
Requests ==
    [missing : {"none", "auth", "kbId", "body", "query", "modelId"},
     k : KRequest,
     distanceThreshold : {None, Given(0), Given(1)}]

\* `x or 8`: None and 0 are falsy
BodyK(k) == IF k = None \/ k = Given(0) THEN DefaultK ELSE k[1]
\* max(1, min(k, 20))
Clamp(k) ==
    LET m == IF k < MaxK THEN k ELSE MaxK
    IN  IF m > MinK THEN m ELSE MinK

\* index.search(query_vector, k): the k nearest rows, nearest first, padded
\* with -1 when the index has fewer than k rows; row r stands at distance
\* r + 1 from the query vector
Neighbours(rows, k) ==
    [i \in 1..k |-> [rank |-> i, idx |-> IF i <= Len(rows) THEN i - 1 ELSE -1]]
\* distance > distance_threshold; the padding stands at the largest distance
BeyondThreshold(idx, threshold) ==
    threshold # None /\ (idx < 0 \/ idx + 1 > threshold[1])
\* metadata[idx], a negative idx counting from the end
PyItem(list, idx) == IF idx < 0 THEN list[Len(list) + idx + 1] ELSE list[idx + 1]
\* FAISSService.search: neighbours beyond the threshold and those with
\* idx >= len(metadata) are skipped
search(rows, meta, k, threshold) ==
    LET kept == SelectSeq(Neighbours(rows, k),
                    LAMBDA n : /\ ~BeyondThreshold(n.idx, threshold)
                               /\ ~(n.idx >= Len(meta)))
    IN  [i \in 1..Len(kept) |->
            [rank |-> kept[i].rank, idx |-> kept[i].idx,
             metadata |-> PyItem(meta, kept[i].idx)]]
\* metadata[-1] on an empty list is an IndexError
SearchRaises(rows, meta, k, threshold) ==
    /\ meta = <<>>
    /\ \E i \in 1..k : ~BeyondThreshold(Neighbours(rows, k)[i].idx, threshold)

\* a KB with or without a saved artifact; one that holds an artifact is
\* 'ready', or still 'empty' when the run that saved it ended before the
\* indexStatus write
InitQuery ==
    /\ now = 0
    /\ prior \in 0..MaxRows
    /\ kb \in {[indexStatus |-> st] :
                 st \in IF prior = 0 THEN {"empty"} ELSE {"empty", "ready"}}
    /\ docs = [j \in Jobs |-> AbsentDoc]
    /\ s3 = IF prior = 0 THEN <<>> ELSE SavedArtifact(_create_chunks(0, prior, 0))
    /\ swallowed = FALSE
    /\ pc = [j \in Jobs |-> "unsent"]
    /\ chunks = [j \in Jobs |-> PyList(<<>>)]
    /\ embeddings = [j \in Jobs |-> <<>>]
    /\ attempt = [j \in Jobs |-> 0]
    /\ index = [j \in Jobs |-> <<>>]
    /\ metadata = [j \in Jobs |-> <<>>]
    /\ error = [j \in Jobs |-> ""]
    /\ lease = [j \in Jobs |-> NoLease]
    /\ overlap = FALSE
    /\ last = NoOp
    /\ confirm = [j \in Jobs |-> "none"]
    /\ query = NoQuery
    /\ UnitsIdle

\* the handler has returned a response
Respond(status, message, retrieved) ==
    query' = [query EXCEPT !.pc = "done", !.status = status, !.message = message,
                           !.retrievedChunks = retrieved]

QueryFrame ==
    UNCHANGED <<confirm, units, prior, swallowed, now, kb, docs, s3, pc, chunks, embeddings,
                attempt, index, metadata, error, lease, overlap, last>>

\* lines 76-84: the request arrives; 401 without a user, 400 without kbId
QueryStart ==
    /\ query.pc = "none"
    /\ \E request \in Requests :
        query' = [pc |-> IF request.missing \in {"auth", "kbId"} THEN "done"
                         ELSE "get_kb",
                  request |-> request,
                  status |-> IF request.missing = "auth" THEN 401
                             ELSE IF request.missing = "kbId" THEN 400 ELSE 0,
                  message |-> IF request.missing = "auth" THEN "Unauthorized"
                              ELSE IF request.missing = "kbId"
                                   THEN "kbId is required" ELSE "",
                  k |-> 0, search_k |-> 0, index |-> <<>>, metadata |-> <<>>, results |-> <<>>,
                  sources |-> <<>>, retrievedChunks |-> 0,
                  s3_calls |-> 0, embedding_calls |-> 0, llm_calls |-> 0]
    /\ QueryFrame

NotReady == "Knowledge base index is not ready. Please add documents first."
NoRelevant == "No relevant information found in the knowledge base."

\* _build_context: the source of every result, each listed once, in the order
\* of the results; a chunk's source is its document's file
RECURSIVE _build_context(_)
_build_context(results) ==
    IF results = <<>> THEN <<>>
    ELSE LET front == _build_context(SubSeq(results, 1, Len(results) - 1))
             source_ref == results[Len(results)].metadata.document_id
         IN  IF \E i \in 1..Len(front) : front[i] = source_ref
             THEN front ELSE Append(front, source_ref)

\* (variant: the readiness of the index is not looked at)
QueryGetKbUnchecked ==
    /\ query.pc = "get_kb"
    /\ query' = [query EXCEPT !.pc = "load_index", !.k = BodyK(query.request.k)]
    /\ QueryFrame

\* lines 86-112: get_by_id, the indexStatus check, then the body: its
\* presence, k, query and modelId.  An exception is answered with 500 by
\* with_error_handling.
QueryGetKb ==
    /\ query.pc = "get_kb"
    /\ \/ Respond(500, "Internal server error", 0)
       \/ IF kb.indexStatus # "ready"
          THEN Respond(400, NotReady, 0)
          ELSE IF query.request.missing = "body"
          THEN Respond(400, "Request body is required", 0)
          ELSE IF query.request.missing = "query"
          THEN query' = [query EXCEPT !.pc = "done", !.status = 400,
                            !.message = "query is required",
                            !.k = BodyK(query.request.k)]
          ELSE IF query.request.missing = "modelId"
          THEN query' = [query EXCEPT !.pc = "done", !.status = 400,
                            !.message = "modelId is required",
                            !.k = BodyK(query.request.k)]
          ELSE query' = [query EXCEPT !.pc = "load_index",
                                      !.k = BodyK(query.request.k)]
    /\ QueryFrame

\* (variant: the query takes the index lease before it reads the artifact)
QueryLoadIndexLocked ==
    /\ query.pc = "load_index"
    /\ LET locked == update_index_lock(kb, "query", now)
       IN  /\ kb' = locked.item
           /\ last' = Op("lock", 0, locked.ok)
    /\ \/ /\ IndexKey \in DOMAIN s3
          /\ query' = [query EXCEPT !.pc = "load_metadata", !.index = s3[IndexKey],
                                    !.s3_calls = @ + 1]
       \/ query' = [query EXCEPT !.pc = "done", !.status = 500,
                        !.message = "Failed to load knowledge base index",
                        !.s3_calls = @ + 1]
    /\ UNCHANGED <<confirm, units, prior, swallowed, now, docs, s3, pc, chunks, embeddings,
                   attempt, index, metadata, error, lease, overlap>>

\* lines 114-122, load_index_from_s3 lines 138-144: download faiss.index
QueryLoadIndexObject ==
    /\ query.pc = "load_index"
    /\ \/ /\ IndexKey \in DOMAIN s3
          /\ query' = [query EXCEPT !.pc = "load_metadata", !.index = s3[IndexKey],
                                    !.s3_calls = @ + 1]
       \/ query' = [query EXCEPT !.pc = "done", !.status = 500,
                        !.message = "Failed to load knowledge base index",
                        !.s3_calls = @ + 1]
    /\ QueryFrame

\* load_index_from_s3 lines 146-153: download metadata.pkl
QueryLoadMetadataObject ==
    /\ query.pc = "load_metadata"
    /\ \/ /\ MetaKey \in DOMAIN s3
          /\ query' = [query EXCEPT !.pc = "embed", !.metadata = s3[MetaKey],
                                    !.s3_calls = @ + 1]
       \/ query' = [query EXCEPT !.pc = "done", !.status = 500,
                        !.message = "Failed to load knowledge base index",
                        !.s3_calls = @ + 1]
    /\ QueryFrame

\* lines 124-127: create_embedding for the query text
QueryEmbed ==
    /\ query.pc = "embed"
    /\ \/ query' = [query EXCEPT !.pc = "search", !.embedding_calls = @ + 1]
       \/ query' = [query EXCEPT !.pc = "done", !.status = 500,
                        !.message = "Internal server error",
                        !.embedding_calls = @ + 1]
    /\ QueryFrame

\* (variant: the prompt is built and the model invoked whatever the search
\* returned)
QuerySearchNoShortCircuit ==
    /\ query.pc = "search"
    /\ LET k == Clamp(query.k)
           threshold == query.request.distanceThreshold
       IN  IF SearchRaises(query.index, query.metadata, k, threshold)
           THEN query' = [query EXCEPT !.pc = "done", !.status = 500, !.search_k = k,
                              !.message = "Internal server error"]
           ELSE query' = [query EXCEPT !.pc = "generate", !.search_k = k,
                              !.results = search(query.index, query.metadata, k,
                                                 threshold)]
    /\ QueryFrame

\* lines 129-144: search with the clamped k; no results: the 200 answer
\* without generation
QuerySearch ==
    /\ query.pc = "search"
    /\ LET k == Clamp(query.k)
           threshold == query.request.distanceThreshold
       IN  IF SearchRaises(query.index, query.metadata, k, threshold)
           THEN query' = [query EXCEPT !.pc = "done", !.status = 500, !.search_k = k,
                              !.message = "Internal server error"]
           ELSE LET results == search(query.index, query.metadata, k, threshold)
                IN  IF results = <<>>
                    THEN query' = [query EXCEPT !.pc = "done", !.status = 200,
                                       !.search_k = k,
                                       !.message = NoRelevant,
                                       !.sources = <<>>, !.retrievedChunks = 0]
                    ELSE query' = [query EXCEPT !.pc = "generate", !.search_k = k,
                                                !.results = results]
    /\ QueryFrame

\* lines 146-170: invoke_model, then the answer; a failure is a 500
QueryGenerate ==
    /\ query.pc = "generate"
    /\ \/ query' = [query EXCEPT !.pc = "done", !.status = 200, !.message = "answer",
                        !.sources = _build_context(query.results),
                        !.retrievedChunks = Len(query.results),
                        !.llm_calls = @ + 1]
       \/ query' = [query EXCEPT !.pc = "done", !.status = 500,
                        !.message = "LLM invocation failed",
                        !.llm_calls = @ + 1]
    /\ QueryFrame

NextQuery ==
    \/ QueryStart
    \/ QueryGetKb
    \/ QueryLoadIndexObject
    \/ QueryLoadMetadataObject
    \/ QueryEmbed
    \/ QuerySearch
    \/ QueryGenerate

SpecQuery == InitQuery /\ [][NextQuery]_vars

\* ------------------------------------------ a query during an ingestion
\* a 'ready' KB with a saved artifact; the message of document 1 is queued
\* and a query may arrive at any moment of its processing
InitQueryIngest ==
    /\ now = 0
    /\ prior \in 1..MaxPrior
    /\ kb = [indexStatus |-> "ready"]
    /\ docs = [j \in Jobs |-> IF j \in Uploads
                              THEN [status |-> "uploaded", chunkCount |-> 0,
                                    errorMessage |-> ""]
                              ELSE AbsentDoc]
    /\ s3 = SavedArtifact(_create_chunks(0, prior, 0))
    /\ swallowed = FALSE
    /\ pc = [j \in Jobs |-> IF j \in Uploads THEN "queued" ELSE "unsent"]
    /\ chunks = [j \in Jobs |-> PyList(<<>>)]
    /\ embeddings = [j \in Jobs |-> <<>>]
    /\ attempt = [j \in Jobs |-> 0]
    /\ index = [j \in Jobs |-> <<>>]
    /\ metadata = [j \in Jobs |-> <<>>]
    /\ error = [j \in Jobs |-> ""]
    /\ lease = [j \in Jobs |-> NoLease]
    /\ overlap = FALSE
    /\ last = NoOp
    /\ confirm = [j \in Jobs |-> IF j \in Uploads THEN "done" ELSE "none"]
    /\ query = NoQuery
    /\ UnitsIdle

NextQueryIngest ==
    \/ QueryStart
    \/ QueryGetKb
    \/ QueryLoadIndexObject
    \/ QueryLoadMetadataObject
    \/ QueryEmbed
    \/ QuerySearch
    \/ QueryGenerate
    \/ \E j \in Uploads :
        \/ DownloadAndProcess(j)
        \/ MarkEmbedding(j)
        \/ CreateEmbeddings(j)
        \/ TryLock(j)
        \/ LoadIndexObject(j)
        \/ LoadMetadataAndAppend(j)
        \/ CreateIndex(j)
        \/ SaveIndexObject(j)
        \/ SaveMetadataObject(j)
        \/ SaveConfigObject(j)
        \/ MarkIndexed(j)
        \/ MarkKbReady(j)
        \/ ReleaseLock(j)
        \/ MarkDocumentFailed(j)

SpecQueryIngest == InitQueryIngest /\ [][NextQueryIngest]_vars

\* ------------------------------------------- handler: a batch of records
\* handler lines 96-105: `for record in records`, one _process_record after
\* the other; an exception marks the record's document failed and leaves the
\* handler by `raise`, so the records after it are not processed
Current(j) == \A i \in 1..(j - 1) : pc[i] = "returned"

NextBatch ==
    \/ Tick
    \/ \E j \in Jobs :
        /\ Current(j)
        /\ \/ DownloadAndProcess(j)
           \/ MarkEmbedding(j)
           \/ CreateEmbeddings(j)
           \/ TryLock(j)
           \/ LoadIndexObject(j)
           \/ LoadMetadataAndAppend(j)
           \/ CreateIndex(j)
           \/ SaveIndexObject(j)
           \/ SaveMetadataObject(j)
           \/ SaveConfigObject(j)
           \/ MarkIndexed(j)
           \/ MarkKbReady(j)
           \/ ReleaseLock(j)
           \/ MarkDocumentFailed(j)

\* the invocation's event holds the records 1..NJobs
SpecBatch == Init /\ [][NextBatch]_vars

\* ---------------------------------------------- functions run on their own
\* the worker, the upload handlers and the query are at rest
AtRest ==
    /\ now = 0
    /\ prior = 0
    /\ kb = [indexStatus |-> "empty"]
    /\ docs = [j \in Jobs |-> AbsentDoc]
    /\ s3 = <<>>
    /\ swallowed = FALSE
    /\ pc = [j \in Jobs |-> "unsent"]
    /\ chunks = [j \in Jobs |-> PyList(<<>>)]
    /\ embeddings = [j \in Jobs |-> <<>>]
    /\ attempt = [j \in Jobs |-> 0]
    /\ index = [j \in Jobs |-> <<>>]
    /\ metadata = [j \in Jobs |-> <<>>]
    /\ error = [j \in Jobs |-> ""]
    /\ lease = [j \in Jobs |-> NoLease]
    /\ overlap = FALSE
    /\ last = NoOp
    /\ confirm = [j \in Jobs |-> "none"]
    /\ query = NoQuery

RestFrame ==
    UNCHANGED <<confirm, query, prior, swallowed, now, kb, docs, s3, pc, chunks,
                embeddings, attempt, index, metadata, error, lease, overlap, last>>

\* ------------------------------------------- FAISSService.create_embedding
embedding_max_retries == 5   \* create_embedding: max_retries = 5
base_delay == 1              \* create_embedding: base_delay = 1.0, seconds

\* the error codes a failing invoke_model call carries; "" is an exception
\* without a response (a connection error, a malformed body)
Throttling == {"ThrottlingException", "TooManyRequestsException"}
ErrorCodes == Throttling \cup {"ValidationException", ""}

RECURSIVE Pow2(_)
Pow2(n) == IF n = 0 THEN 1 ELSE 2 * Pow2(n - 1)

\* (variant: every failing call but the last is retried)
RetryAnyError(attempt_, error_code) == attempt_ < embedding_max_retries - 1
\* attempt < max_retries - 1 and error_code in [...]
Retry(attempt_, error_code) ==
    attempt_ < embedding_max_retries - 1 /\ error_code \in Throttling

InitEmbed ==
    /\ AtRest
    /\ embed = [pc |-> "invoke", attempt |-> 0, calls |-> 0, errors |-> <<>>,
                waits |-> <<>>, raised |-> ""]
    /\ pdf = NoPdf
    /\ chunker = NoChunker

\* one pass of `for attempt in range(max_retries)`: invoke_model returns the
\* embedding, or raises and the except clause sleeps or re-raises
EmbedInvoke ==
    /\ embed.pc = "invoke"
    /\ embed.attempt < embedding_max_retries
    /\ \/ embed' = [embed EXCEPT !.pc = "returned", !.calls = @ + 1]
       \/ \E error_code \in ErrorCodes :
            embed' = [embed EXCEPT
                        !.pc = IF Retry(embed.attempt, error_code)
                               THEN "sleep" ELSE "raised",
                        !.calls = @ + 1,
                        !.errors = Append(@, error_code),
                        !.raised = IF Retry(embed.attempt, error_code)
                                   THEN "" ELSE error_code]
    /\ UNCHANGED <<pdf, chunker>>
    /\ RestFrame

\* delay = base_delay * (2**attempt); time.sleep(delay); the next pass
EmbedSleep ==
    /\ embed.pc = "sleep"
    /\ embed' = [embed EXCEPT !.pc = "invoke", !.attempt = @ + 1,
                              !.waits = Append(@, base_delay * Pow2(embed.attempt))]
    /\ UNCHANGED <<pdf, chunker>>
    /\ RestFrame

NextEmbed == EmbedInvoke \/ EmbedSleep

SpecEmbed == InitEmbed /\ [][NextEmbed]_vars

\* ---------------------------------- DocumentProcessingService._extract_pdf
MaxPages == 2               \* pages of a PDF
MaxPolls == 3               \* polls of the OCR job that are counted
OcrThreshold == 50          \* if avg_chars_per_page < 50

\* page.extract_text() of a page: nothing, white space only, or text of the
\* given number of characters once stripped
PageTexts ==
    {[text |-> FALSE, chars |-> 0], [text |-> TRUE, chars |-> 0]}
        \cup {[text |-> TRUE, chars |-> n] : n \in {10, 49, 50, 51, 5000}}
Pdfs == UNION {[1..n -> PageTexts] : n \in 0..MaxPages}

\* valid_text_count += len(page_text.strip()), over the pages
RECURSIVE valid_text_count(_)
valid_text_count(pages) ==
    IF pages = <<>> THEN 0
    ELSE valid_text_count(SubSeq(pages, 1, Len(pages) - 1))
            + pages[Len(pages)].chars

\* extracted_text after the page loop: a page header and the text of every
\* page that gave any
StandardText(pages) ==
    IF \E i \in 1..Len(pages) : pages[i].text THEN "standard text" ELSE ""

\* (variant: a page average equal to the threshold counts as a scan)
InsufficientAtThreshold(pages) ==
    IF pages = <<>> THEN TRUE
    ELSE valid_text_count(pages) <= OcrThreshold * Len(pages)
\* avg_chars_per_page = valid_text_count / len(reader.pages) if reader.pages
\* else 0; avg_chars_per_page < 50
Insufficient(pages) ==
    IF pages = <<>> THEN TRUE
    ELSE valid_text_count(pages) < OcrThreshold * Len(pages)

\* the s3_key is the key of the uploaded object, which confirm_document_upload
\* requires to be non-empty
InitPdf ==
    /\ AtRest
    /\ embed = NoEmbed
    /\ pdf \in {[pc |-> "read", pages |-> pages, s3_key |-> "documents/key",
                 extracted_text |-> "", ocr_calls |-> 0,
                 polls |-> 0, job_status |-> "",
                 content_items |-> <<>>, method |-> ""] : pages \in Pdfs}
    /\ chunker = NoChunker

\* lines 103-115: the page loop; PdfReader or extract_text may raise
PdfRead ==
    /\ pdf.pc = "read"
    /\ \/ pdf' = [pdf EXCEPT !.pc = "gate",
                             !.extracted_text = StandardText(pdf.pages)]
       \/ pdf' = [pdf EXCEPT !.pc = "raised"]
    /\ UNCHANGED <<embed, chunker>>
    /\ RestFrame

\* lines 118-122: the sufficiency check
PdfGate ==
    /\ pdf.pc = "gate"
    /\ pdf' = [pdf EXCEPT !.pc = IF Insufficient(pdf.pages) /\ pdf.s3_key # ""
                                 THEN "textract" ELSE "return"]
    /\ UNCHANGED <<embed, chunker>>
    /\ RestFrame

\* lines 123-125: extracted_text is assigned what _extract_text_with_textract
\* returns, text or "", and text is returned with method 'textract'
OcrResult(text) ==
    [pdf EXCEPT !.extracted_text = text,
                !.pc = IF text # "" THEN "returned" ELSE "return",
                !.content_items = IF text # "" THEN <<text>> ELSE <<>>,
                !.method = IF text # "" THEN "textract" ELSE ""]

\* the JobStatus values get_document_text_detection reports
JobStatuses == {"IN_PROGRESS", "SUCCEEDED", "FAILED", "PARTIAL_SUCCESS"}
\* status in ["SUCCEEDED", "FAILED", "PARTIAL_SUCCESS"]
JobEnded(status) == status \in {"SUCCEEDED", "FAILED", "PARTIAL_SUCCESS"}

\* lines 54-62: start_document_text_detection; an exception anywhere in the
\* function is caught at lines 98-100 and "" returned
PdfTextractStart ==
    /\ pdf.pc = "textract"
    /\ \/ pdf' = [pdf EXCEPT !.pc = "poll", !.ocr_calls = @ + 1]
       \/ pdf' = [OcrResult("") EXCEPT !.ocr_calls = @ + 1]
    /\ UNCHANGED <<embed, chunker>>
    /\ RestFrame

\* (variant: the loop gives up once MaxPolls polls have been made)
PdfPollWithDeadline ==
    /\ pdf.pc = "poll"
    /\ LET polled == IF pdf.polls < MaxPolls THEN pdf.polls + 1 ELSE MaxPolls
       IN  \/ pdf' = [OcrResult("") EXCEPT !.polls = polled, !.job_status = "raised"]
           \/ \E status \in JobStatuses :
                pdf' = IF status = "SUCCEEDED"
                       THEN [pdf EXCEPT !.pc = "collect", !.polls = polled,
                                        !.job_status = status]
                       ELSE IF JobEnded(status) \/ polled = MaxPolls
                       THEN [OcrResult("") EXCEPT !.polls = polled,
                                                  !.job_status = status]
                       ELSE [pdf EXCEPT !.polls = polled, !.job_status = status]
    /\ UNCHANGED <<embed, chunker>>
    /\ RestFrame

\* lines 66-72, 94-96: one pass of `while True`: get_document_text_detection,
\* break on an ended job, otherwise time.sleep(2) and the next pass.  The
\* passes are counted up to MaxPolls, and go on beyond.
PdfPoll ==
    /\ pdf.pc = "poll"
    /\ LET polled == IF pdf.polls < MaxPolls THEN pdf.polls + 1 ELSE MaxPolls
       IN  \/ pdf' = [OcrResult("") EXCEPT !.polls = polled, !.job_status = "raised"]
           \/ \E status \in JobStatuses :
                pdf' = IF status = "SUCCEEDED"
                       THEN [pdf EXCEPT !.pc = "collect", !.polls = polled,
                                        !.job_status = status]
                       ELSE IF JobEnded(status)
                       THEN [OcrResult("") EXCEPT !.polls = polled,
                                                  !.job_status = status]
                       ELSE [pdf EXCEPT !.polls = polled, !.job_status = status]
    /\ UNCHANGED <<embed, chunker>>
    /\ RestFrame

\* lines 74-93: the pages of the result are fetched and their LINE and PAGE
\* blocks joined, possibly to nothing; a failing call gives ""
PdfCollect ==
    /\ pdf.pc = "collect"
    /\ \E text \in {"", "textract text"} : pdf' = OcrResult(text)
    /\ UNCHANGED <<embed, chunker>>
    /\ RestFrame

\* lines 127-131
PdfReturn ==
    /\ pdf.pc = "return"
    /\ pdf' = [pdf EXCEPT
                 !.pc = "returned",
                 !.content_items = IF pdf.extracted_text # ""
                                   THEN <<pdf.extracted_text>> ELSE <<>>,
                 !.method = IF pdf.extracted_text # "" THEN "standard"
                            ELSE "failed"]
    /\ UNCHANGED <<embed, chunker>>
    /\ RestFrame

NextPdf ==
    \/ PdfRead
    \/ PdfGate
    \/ PdfTextractStart
    \/ PdfPoll
    \/ PdfCollect
    \/ PdfReturn

SpecPdf == InitPdf /\ [][NextPdf]_vars

\* -------------------------------- DocumentProcessingService._create_chunks
MaxItems == 2               \* content items handed to _create_chunks
MaxStart == 2               \* largest start_index

\* a content item: its type, and for a text item the number of pieces
\* text_splitter.split_text(content) cuts it into
ContentItems ==
    {[type |-> "text", pieces |-> n] : n \in 0..MaxChunks}
        \cup {[type |-> "image", pieces |-> 0]}
ContentLists == UNION {[1..n -> ContentItems] : n \in 0..MaxItems}

\* f"{document_id}_chunk_{chunk_index}"
chunk_id(document_id, chunk_index) ==
    ToString(document_id) \o "_chunk_" \o ToString(chunk_index)

\* lines 188-189: metadata = [], chunk_index = start_index
InitChunker ==
    /\ AtRest
    /\ embed = NoEmbed
    /\ pdf = NoPdf
    /\ chunker \in {[pc |-> "items", content_items |-> items,
                     document_id |-> d, start_index |-> start,
                     item |-> 1, piece |-> 1, chunk_index |-> start,
                     metadata |-> <<>>] :
                        items \in ContentLists, d \in Jobs, start \in 0..MaxStart}

\* (variant: the numbering starts again with every content item)
ChunkerItemRestarting ==
    /\ chunker.pc = "items"
    /\ chunker.item <= Len(chunker.content_items)
    /\ chunker' = IF chunker.content_items[chunker.item].type = "text"
                  THEN [chunker EXCEPT !.pc = "pieces", !.piece = 1,
                                       !.chunk_index = chunker.start_index]
                  ELSE [chunker EXCEPT !.item = @ + 1]
    /\ UNCHANGED <<embed, pdf>>
    /\ RestFrame

\* lines 191-198: `for item in content_items`; only a text item is split
ChunkerItem ==
    /\ chunker.pc = "items"
    /\ chunker.item <= Len(chunker.content_items)
    /\ chunker' = IF chunker.content_items[chunker.item].type = "text"
                  THEN [chunker EXCEPT !.pc = "pieces", !.piece = 1]
                  ELSE [chunker EXCEPT !.item = @ + 1]
    /\ UNCHANGED <<embed, pdf>>
    /\ RestFrame

\* lines 199-225: `for chunk_text in text_chunks`: a record is appended and
\* chunk_index += 1
ChunkerAppend ==
    /\ chunker.pc = "pieces"
    /\ chunker.piece <= chunker.content_items[chunker.item].pieces
    /\ chunker' = [chunker EXCEPT
                     !.metadata = Append(@,
                        [chunk_id |-> chunk_id(chunker.document_id,
                                               chunker.chunk_index),
                         document_id |-> chunker.document_id,
                         chunk_index |-> chunker.chunk_index]),
                     !.chunk_index = @ + 1,
                     !.piece = @ + 1]
    /\ UNCHANGED <<embed, pdf>>
    /\ RestFrame

\* the pieces of the item are exhausted: the next item
ChunkerItemDone ==
    /\ chunker.pc = "pieces"
    /\ chunker.piece > chunker.content_items[chunker.item].pieces
    /\ chunker' = [chunker EXCEPT !.pc = "items", !.item = @ + 1]
    /\ UNCHANGED <<embed, pdf>>
    /\ RestFrame

\* line 227: return metadata
ChunkerReturn ==
    /\ chunker.pc = "items"
    /\ chunker.item > Len(chunker.content_items)
    /\ chunker' = [chunker EXCEPT !.pc = "returned"]
    /\ UNCHANGED <<embed, pdf>>
    /\ RestFrame

NextChunker == ChunkerItem \/ ChunkerAppend \/ ChunkerItemDone \/ ChunkerReturn

SpecChunker == InitChunker /\ [][NextChunker]_vars

\* ------------------------------------------------------------ vocabulary
TtlMs == ttl_seconds * 1000

HasLease(item) == "indexLock" \in DOMAIN item
\* the recorded lease: holder and timestamp, <<>> when none is recorded
LeaseOf(item) ==
    IF HasLease(item) THEN <<item.indexLock, item.indexLockTime>> ELSE <<>>
HeldBy(item, lock_id) == HasLease(item) /\ item.indexLock = lock_id
\* the recorded timestamp is older than `at - ttl`
Stale(item, at) == HasLease(item) /\ at - item.indexLockTime > TtlMs

\* a run's own lease is live: acquired, release not yet called, not older
\* than the TTL
LiveLease(j) ==
    /\ lease[j].state = "held"
    /\ now - lease[j].at <= TtlMs

RECURSIVE SumChunkCounts(_)
SumChunkCounts(S) ==
    IF S = {} THEN 0
    ELSE LET j == CHOOSE x \in S : TRUE
         IN  docs[j].chunkCount + SumChunkCounts(S \ {j})

Returned == {j \in Jobs : pc[j] = "returned"}
AllStartedReturned == Returned # {} /\ \A j \in Jobs : pc[j] \in {"queued", "returned"}

\* ------------------------------------------------------------------ claims

\* C1: at most one run holds the KB's lease at a time: two runs never both
\* have a lease that is neither released nor older than the TTL, and while
\* another run's lease is recorded and not older than the TTL, a call of
\* update_index_lock returns False.
C1_MutualExclusion ==
    /\ \A a, b \in Jobs : (LiveLease(a) /\ LiveLease(b)) => a = b
    /\ (/\ last.op = "update_index_lock"
        /\ HasLease(last.before)
        /\ last.before.indexLock \notin {"", uuid(last.job)}
        /\ last.at - last.before.indexLockTime <= TtlMs)
       => ~last.ok

\* a run holds a live lease and another run's acquisition has just failed
C1_Witness ==
    \E a \in Jobs :
        /\ LiveLease(a)
        /\ HeldBy(kb, uuid(a))
        /\ last.op = "update_index_lock"
        /\ last.job # a
        /\ ~last.ok

C9_ReleaseOnlyOwn ==
    last.op = "release_index_lock"
        => /\ IF HeldBy(last.before, uuid(last.job))
              THEN LeaseOf(kb) = <<>>
              ELSE LeaseOf(kb) = LeaseOf(last.before)
           /\ error[last.job] = "" => pc[last.job] = "returned"

\* a run releases after its stale lease was taken over: the other holder's
\* lease is still recorded
C9_Witness ==
    /\ last.op = "release_index_lock"
    /\ \E o \in Jobs \ {last.job} :
        /\ HeldBy(last.before, uuid(o))
        /\ HeldBy(kb, uuid(o))
        /\ lease[o].state = "held"
    /\ pc[last.job] = "returned"

LockFailure == "Failed to acquire index lock"

Terminal == {"indexed", "failed"}

\* one step along uploaded -> processing -> embedding -> indexed, or from a
\* status that is not terminal to failed
StatusStep(a, b) ==
    \/ a = "uploaded" /\ b = "processing"
    \/ a = "processing" /\ b = "embedding"
    \/ a = "embedding" /\ b = "indexed"
    \/ a \notin Terminal /\ b = "failed"

\* C12: a write to an existing document's status moves it one step along
\* uploaded -> processing -> embedding -> indexed or failed, and no write by
\* the upload-confirmation handler or a worker run changes a status that is
\* indexed or failed.
C12_StatusLifecycle ==
    [][\A j \in Jobs :
        (/\ docs[j].status # "absent"
         /\ docs'[j].status # "absent"
         /\ docs'[j].status # docs[j].status)
            => /\ docs[j].status \notin Terminal
               /\ StatusStep(docs[j].status, docs'[j].status)]_vars

\* C13: when a worker run takes a message and starts extraction and
\* chunking, the document has been marked 'processing'.
C13_ProcessingBeforeExtraction ==
    [][\A j \in Jobs :
        (pc[j] = "queued" /\ pc'[j] # "queued" /\ docs[j].status # "absent")
            => docs[j].status = "processing"]_vars

\* C14: by the time handler re-raises the exception of a failed record, the
\* document's status is 'failed' and its errorMessage holds the error text.
C14_FailureRecorded ==
    \A j \in Jobs :
        pc[j] = "raised"
            => /\ docs[j].status = "failed"
               /\ docs[j].errorMessage = error[j]

\* the errors of a document without usable content: unsupported type or no
\* content (ValueError out of download_and_process), or zero chunks
NoContentErrors == {"No content extracted", "Document produced no chunks"}

\* C15: a document whose type is unsupported or whose extraction yields no
\* content or zero chunks fails: a run goes past extraction only with at
\* least one chunk; a run that ended on one of these errors never wrote
\* 'embedding', made no embedding call, acquired no lease and left the
\* artifact as it was; its document is marked 'failed' with the message when
\* the error is re-raised.
C15_NoContentFails ==
    /\ [](\A j \in Jobs :
            /\ (Active(j) /\ pc[j] # "except") => chunks[j].items # <<>>
            /\ (error[j] \in NoContentErrors /\ pc[j] \in {"except", "raised"})
                => /\ docs[j].status # "embedding"
                   /\ lease[j].state = "none"
            /\ (error[j] \in NoContentErrors /\ pc[j] = "raised")
                => /\ docs[j].status = "failed"
                   /\ docs[j].errorMessage = error[j])
    /\ [][\A j \in Jobs :
            (pc[j] = "queued" /\ pc'[j] = "except")
                => /\ error'[j] \in NoContentErrors
                   /\ embeddings'[j] = <<>>
                   /\ s3' = s3
                   /\ kb' = kb]_vars

\* the three objects of the artifact are stored
CompleteArtifact(bucket) == {IndexKey, MetaKey, ConfigKey} \subseteq DOMAIN bucket

\* C16: indexStatus is 'ready' only when a complete artifact (index,
\* metadata, config) has been saved for the KB, and it becomes 'ready' only
\* by a run that has completed its save.
C16_ReadyAfterSave ==
    /\ [](kb.indexStatus = "ready" => CompleteArtifact(s3))
    /\ [][(kb.indexStatus # "ready" /\ kb'.indexStatus = "ready")
            => /\ CompleteArtifact(s3)
               /\ \E j \in Jobs :
                    /\ pc[j] = "mark_ready"
                    /\ docs[j].status = "indexed"]_vars

\* a KB created empty has become ready after a run's save
C16_Witness ==
    /\ prior = 0
    /\ kb.indexStatus = "ready"
    /\ CompleteArtifact(s3)
    /\ \E j \in Jobs : pc[j] = "returned" /\ docs[j].status = "indexed"

\* C17: once indexStatus is 'ready' it stays 'ready', whatever later
\* ingestions fail and whatever documents are deleted.
C17_ReadyNeverReverts ==
    [][kb.indexStatus = "ready" => kb'.indexStatus = "ready"]_vars

\* the KB's only document was indexed and then deleted: still ready
C17_Witness ==
    /\ prior = 0
    /\ kb.indexStatus = "ready"
    /\ kb.documentCount = 0
    /\ \E j \in Uploads : docs[j].status = "absent" /\ pc[j] = "returned"

C19_NotReadyNoCalls ==
    (query.pc # "none" /\ kb.indexStatus # "ready")
        => /\ query.s3_calls = 0
           /\ query.embedding_calls = 0
           /\ query.llm_calls = 0
           /\ query.pc \in {"get_kb", "done"}
           /\ (/\ query.pc = "done"
               /\ query.request.missing \notin {"auth", "kbId"}
               /\ query.status # 500)
                => /\ query.status = 400
                   /\ query.message = NotReady

\* a complete request against a KB that holds an artifact but is not ready
\* has been refused without any call
C19_Witness ==
    /\ kb.indexStatus = "empty"
    /\ CompleteArtifact(s3)
    /\ query.pc = "done"
    /\ query.request.missing = "none"
    /\ query.message = NotReady
    /\ query.s3_calls = 0

\* C20: the search is run with max(1, min(k, 20)) for every integer k given
\* in the request, and with 8 when k is not given.
C20_SearchKClamped ==
    (query.pc # "none" /\ query.search_k # 0)
        => IF query.request.k = None
           THEN query.search_k = 8
           ELSE LET k == query.request.k[1]
                IN  /\ query.search_k \in 1..20
                    /\ k \in 1..20 => query.search_k = k
                    /\ k < 1 => query.search_k = 1
                    /\ k > 20 => query.search_k = 20

\* C21: a search returns at most min(k, number of vectors) results, each for
\* a distinct existing row of the index; k = 8 against 3 vectors gives at
\* most 3 results.
C21_ResultsBoundedByRows ==
    (query.pc \in {"generate", "done"} /\ query.search_k # 0)
        => /\ Len(query.results) <= query.search_k
           /\ Len(query.results) <= Len(query.index)
           /\ \A i \in 1..Len(query.results) :
                query.results[i].idx \in 0..(Len(query.index) - 1)
           /\ \A i, j \in 1..Len(query.results) :
                i # j => query.results[i].idx # query.results[j].idx

\* C22: a search without results is answered with the 'no relevant
\* information' answer, no sources and retrievedChunks 0, and the generation
\* provider is not invoked.
C22_NoResultsShortCircuit ==
    (query.pc \in {"generate", "done"} /\ query.search_k # 0
        /\ query.results = <<>> /\ query.status # 500)
        => /\ query.pc = "done"
           /\ query.status = 200
           /\ query.message = NoRelevant
           /\ query.sources = <<>>
           /\ query.retrievedChunks = 0
           /\ query.llm_calls = 0

\* a search over a loaded index of several rows whose threshold no row meets
\* has been answered
C22_Witness ==
    /\ query.pc = "done"
    /\ query.search_k # 0
    /\ Len(query.index) > 1
    /\ query.request.distanceThreshold = Given(0)
    /\ query.results = <<>>
    /\ query.message = NoRelevant

\* C23: no step of a query changes the KB record (the lease fields among
\* them), a Document record or an object of the artifact, and none calls the
\* lock manager, whatever the outcome of the query.
C23_QueryReadOnly ==
    [][query' # query
        => /\ kb' = kb
           /\ docs' = docs
           /\ s3' = s3
           /\ last' = last]_vars

\* a query that loaded both objects of a ready KB has ended in an error,
\* and another has ended in an answer
C23_Witness ==
    /\ query.pc = "done"
    /\ query.s3_calls = 2
    /\ query.status = 500
    /\ query.message = "LLM invocation failed"
    /\ kb.indexStatus = "ready"
    /\ CompleteArtifact(s3)

\* C24: create_embedding makes at most 5 provider calls, waits 1, 2, 4 and 8
\* seconds between them, retries only after a rate-limiting error, fails
\* with the error of the fifth throttled call, and lets any other provider
\* error through after the call that raised it.
C24_EmbeddingBackoff ==
    embed.pc # "none"
        => /\ embed.calls <= 5
           /\ embed.pc = "invoke" => embed.attempt < 5
           /\ Len(embed.waits) <= 4
           /\ \A i \in 1..Len(embed.waits) :
                /\ embed.waits[i] = <<1, 2, 4, 8>>[i]
                /\ embed.errors[i] \in Throttling
           /\ embed.pc \in {"returned", "raised"}
                => embed.calls = Len(embed.waits) + 1
           /\ \A i \in 1..Len(embed.errors) :
                embed.errors[i] \notin Throttling
                    => /\ i = Len(embed.errors)
                       /\ embed.pc = "raised"
                       /\ embed.raised = embed.errors[i]
                       /\ embed.calls = i
           /\ Len(embed.errors) = 5
                => /\ embed.pc = "raised"
                   /\ embed.raised = embed.errors[5]
           /\ embed.pc = "raised"
                => \/ embed.calls = 5
                   \/ embed.raised \notin Throttling

\* the fifth call in a row was throttled and the function has raised
C24_Witness ==
    /\ embed.pc = "raised"
    /\ embed.calls = 5
    /\ embed.waits = <<1, 2, 4, 8>>
    /\ embed.raised \in Throttling

\* C25: PDF extraction calls the OCR provider exactly when the extracted
\* characters per page average below 50: one page of 10 characters triggers
\* it, one of 5,000 does not; at 50 or above the provider is not called and
\* the method is 'standard'.
C25_OcrGate ==
    pdf.pc = "returned"
        => LET n == Len(pdf.pages)
               total == valid_text_count(pdf.pages)
               below == n = 0 \/ total < 50 * n
           IN  /\ pdf.ocr_calls = (IF below THEN 1 ELSE 0)
               /\ ~below => pdf.method = "standard"
               /\ (n = 1 /\ pdf.pages[1].chars = 10) => pdf.ocr_calls = 1
               /\ (n = 1 /\ pdf.pages[1].chars = 5000) => pdf.ocr_calls = 0

\* a PDF of one page with 10 characters has been through OCR, and its text
\* came from there
C25_Witness ==
    /\ pdf.pc = "returned"
    /\ Len(pdf.pages) = 1
    /\ pdf.pages[1].chars = 10
    /\ pdf.ocr_calls = 1
    /\ pdf.method = "textract"

\* C26: a load that finds no index object is not an error of the run: the
\* worker goes on to build a new index from the current document alone, and
\* the artifact it saves for a KB that held none consists of exactly that
\* document's vectors and chunk records.
C26_FirstIngestionBootstrap ==
    /\ [][\A j \in Jobs :
            (pc[j] = "load_index" /\ pc'[j] # "load_index"
                /\ IndexKey \notin DOMAIN s3)
                => /\ pc'[j] = "create_index"
                   /\ error'[j] = ""
                   /\ swallowed' = swallowed]_vars
    /\ [][\A j \in Jobs :
            (pc[j] = "create_index" /\ pc'[j] # "create_index")
                => /\ pc'[j] = "save_index"
                   /\ index'[j] = create_embeddings_batch(chunks[j].items)
                   /\ metadata'[j] = chunks[j].items]_vars
    /\ [](\A j \in Jobs :
            (/\ prior = 0
             /\ \A o \in Jobs \ {j} : pc[o] = "queued"
             /\ pc[j] \in {"mark_indexed", "mark_ready"})
                => /\ StoredIndex(s3) = create_embeddings_batch(chunks[j].items)
                   /\ StoredMetadata(s3) = chunks[j].items
                   /\ \A i \in 1..Len(StoredMetadata(s3)) :
                        StoredMetadata(s3)[i].document_id = j)

\* the first document of a KB that held no artifact has been saved with its
\* two chunks
C26_Witness ==
    /\ prior = 0
    /\ \E j \in Jobs :
        /\ \A o \in Jobs \ {j} : pc[o] = "queued"
        /\ pc[j] = "mark_indexed"
        /\ Len(chunks[j].items) = 2
        /\ StoredMetadata(s3) = chunks[j].items
        /\ CompleteArtifact(s3)

RecordsOf(j, list) == {i \in 1..Len(list) : list[i].document_id = j}

C30_ChunksNumberedFromStart ==
    chunker.pc = "returned"
        => LET out == chunker.metadata
           IN  /\ \A i \in 1..Len(out) :
                    /\ out[i].chunk_index = chunker.start_index + i - 1
                    /\ out[i].chunk_id =
                         ToString(chunker.document_id) \o "_chunk_"
                            \o ToString(out[i].chunk_index)
               /\ \A i, k \in 1..Len(out) :
                    i # k => out[i].chunk_id # out[k].chunk_id
               /\ [i \in 1..Len(out) |->
                     [document_id |-> out[i].document_id,
                      chunk_index |-> out[i].chunk_index]]
                    = _create_chunks(chunker.document_id, Len(out),
                                     chunker.start_index)

\* two text items of two pieces each, numbered from 2: four records, 2..5
C30_Witness ==
    /\ chunker.pc = "returned"
    /\ chunker.start_index = 2
    /\ Len(chunker.content_items) = 2
    /\ Len(chunker.metadata) = 4
    /\ chunker.metadata[4].chunk_index = 5

\* C31: when the OCR fallback was triggered and gave no text, _extract_pdf
\* returns the normally extracted text with method 'standard' if that text
\* is not blank, and no content otherwise; it does not raise on account of
\* the OCR failure.
C31_OcrFailureFallsBack ==
    (pdf.pc \in {"return", "returned", "raised"} /\ pdf.ocr_calls > 0)
        => /\ pdf.pc # "raised"
           /\ (pdf.pc = "returned" /\ pdf.method # "textract")
                => IF StandardText(pdf.pages) # ""
                   THEN /\ pdf.method = "standard"
                        /\ pdf.content_items = <<StandardText(pdf.pages)>>
                   ELSE /\ pdf.method = "failed"
                        /\ pdf.content_items = <<>>

LeaseSection ==
    {"load_index", "load_metadata", "create_index", "save_index",
     "save_metadata", "save_config", "mark_indexed", "mark_ready", "release"}

\* C33: the KB records a run's lease only while the run loads, appends,
\* saves, writes the two final statuses or releases: never during
\* extraction or the embedding calls.  So an acquisition is refused only
\* on account of a run that stands in that section, never on account of one
\* still extracting or embedding.
C33_LeaseOnlyAroundIndexWork ==
    /\ \A j \in Jobs : HeldBy(kb, uuid(j)) => pc[j] \in LeaseSection
    /\ \A j \in Jobs :
        (pc[j] = "lock" /\ ~LockCondition(kb, now))
            => \E o \in Jobs \ {j} :
                /\ HeldBy(kb, uuid(o))
                /\ pc[o] \in LeaseSection

\* one run has acquired the lease and saves while another is still at its
\* embedding calls
C33_Witness ==
    \E j, o \in Jobs :
        /\ pc[j] = "embed"
        /\ pc[o] = "save_index"
        /\ HeldBy(kb, uuid(o))

====
